---- MODULE Spec2Model ----
(***************************************************************************)
(* State-machine model of the PdfViewer control                            *)
(* (src/src/PowerAi.PdfViewer/index.ts).  One action per handler or        *)
(* continuation: the host calls init / updateView / destroy, the resize    *)
(* observer and the toolbar buttons call back, the window delivers         *)
(* keydown events, and every `await` of updateView / fetchPdfBuffer /      *)
(* render is a point where another handler may run before the              *)
(* continuation does.                                                      *)
(*                                                                         *)
(* What stands for the environment: a record id names the bytes the store  *)
(* holds, and whether they decode is a property of those bytes; a fetch    *)
(* and a paint succeed or fail as the environment chooses.  Two awaits     *)
(* between which render() touches no field (getDocument, getPage) are one  *)
(* step.  this.toolbar and this.notifyOutputChanged are written and never  *)
(* read, and are left out.  Numbers are exact fractions, so the rounding   *)
(* of floating point is not modelled.  The Print button calls              *)
(* window.print(), which touches no state of the control, and has no       *)
(* action.                                                                 *)
(*                                                                         *)
(* Spec is the control under the events of its host, window and toolbar,   *)
(* for one page size.  SpecCalc takes the sizing of render() (calcScale    *)
(* and the two canvas dimensions) on its own, for every rectangle, page    *)
(* size and fit policy up to MaxDim, zero included.                        *)
(***************************************************************************)
EXTENDS Integers, Sequences, FiniteSets, TLC

\* ---------------------------------------------------------------- bounds
MaxEvents   == 4   \* calls by the host, resize notifications, clicks and key presses
MaxInits    == 2   \* calls of init() among them
MaxUpdates  == 2   \* calls of updateView() among them
MaxDim      == 3   \* widths and heights, when a sizing is taken on its own

\* ------------------------------------------------------- values and inputs
None == [call |-> 0, id |-> <<>>]           \* pdfData === null

\* a string parameter of the property bag: raw is null/undefined, or a string
\* (a sequence of characters)
NullS == [isNull |-> TRUE, chars |-> <<>>]
S(chars) == [isNull |-> FALSE, chars |-> chars]

\* context.parameters: TwoOptions parameters are "absent" (no such
\* parameter), "null" (raw is null), "true" or "false"; pageFit.raw is "null",
\* a number ("num:1") or a string ("str:width")

Cfg(table, rec, col, fit, dl, pr, tb) ==
  [tableLogicalName |-> table, recordId |-> rec, fileColumnName |-> col,
   pageFit |-> fit, allowDownload |-> dl, allowPrint |-> pr, toolbarVisible |-> tb]

\* the configurations the host delivers: two with a complete locator (record
\* a, with and without braces, holds a PDF; record x holds bytes that are no
\* PDF), and one for each way a locator is incomplete
CfgA        == Cfg(S(<<"t">>), S(<<"{", "a", "}">>), S(<<"c">>), "null",      "true",   "false",  "absent")
CfgX        == Cfg(S(<<"t">>), S(<<"x">>),           S(<<"c">>), "str:page",  "false",  "null",   "false")
CfgNoRecord == Cfg(S(<<"t">>), S(<<>>),              S(<<"c">>), "num:2",     "absent", "false",  "true")
CfgBraces   == Cfg(S(<<"t">>), S(<<"{", "}">>),      S(<<"c">>), "str:width", "null",   "true",   "null")
CfgNoTable  == Cfg(NullS,      S(<<"a">>),           S(<<"c">>), "str:1",     "false",  "absent", "true")
CfgNoColumn == Cfg(S(<<"t">>), S(<<"a">>),           S(<<>>),    "num:1",     "true",   "true",   "false")
Configs == {CfgA, CfgX, CfgNoRecord, CfgBraces, CfgNoTable, CfgNoColumn}

\* the contexts init() is called with: print not allowed, print allowed
InitConfigs == {CfgA, CfgNoColumn}

\* this.ctx before init() assigns it (never read in that state)
NoCtx == Cfg(NullS, NullS, NullS, "null", "absent", "absent", "absent")

\* the sizes the container's bounding rectangle takes
Sizes == { [w |-> 300, h |-> 200], [w |-> 250, h |-> 250] }

\* what the record store and the decoder hold for a record id: the page's
\* size at scale 1, or a byte sequence that is not a PDF
Corrupt(id) == id = <<"x">>
PageOf(id) == [w |-> 100, h |-> 200]

\* 'ResizeObserver' in window: the browsers the control runs in have it
ResizeObserverInWindow == TRUE

\* outcomes of fetch(): a 2xx response whose body is read, a non-2xx
\* response, a rejected request
FetchOutcomes == {"ok", "HTTP 404", "network"}

\* keydown events on the window
Keys == { [ctrlKey |-> TRUE,  metaKey |-> FALSE, key |-> "p"],
          [ctrlKey |-> FALSE, metaKey |-> TRUE,  key |-> "P"],
          [ctrlKey |-> TRUE,  metaKey |-> FALSE, key |-> "q"] }
NoKey == [ctrlKey |-> FALSE, metaKey |-> FALSE, key |-> "", prevented |-> FALSE]

VARIABLES
  phase,          \* "constructed", "live" (init was called), "destroyed"
  ctx,            \* this.ctx
  pdfData,        \* this.pdfData: None or the buffer a fetch returned
  currentFit,     \* this.currentFit
  canvas,         \* this.canvas: NoCanvas or the canvas element it refers to
  container,      \* the children of this.container
  size,           \* this.container.getBoundingClientRect()
  resizeObserver, \* this.resizeObserver: 0 or the observer
  observers,      \* the observers that observe the container
  unhookPrint,    \* this.unhookPrint: 0 or the handler it removes
  listeners,      \* the keydown handlers registered on the window
  calls,          \* the updateView calls: position and promise
  passes,         \* the render passes: position and promise
  fetchCount,     \* fetch() invocations
  initCalls,      \* calls of init()
  events,         \* events delivered so far
  zoomedSince,    \* history: a zoom was applied since the last updateView call
  lastKey,        \* the last keydown event and whether it was prevented
  cfgFit,         \* history: pageFit.raw of the context of the last updateView call
  objectUrls,     \* the object URLs created and not revoked
  urlsCreated,    \* URL.createObjectURL() invocations
  calcIn,         \* the rectangle, page size and fit policy a sizing is computed for
  calcOut         \* the scale and the canvas size computed for calcIn

vars == <<phase, ctx, pdfData, currentFit, canvas, container, size,
          resizeObserver, observers, unhookPrint, listeners, calls, passes,
          fetchCount, initCalls,
                 events, zoomedSince, lastKey, cfgFit, objectUrls, urlsCreated,
          calcIn, calcOut>>

\* the variables of the download action, and of the sizing taken on its own
urlVars  == <<objectUrls, urlsCreated>>
calcVars == <<calcIn, calcOut>>

\* ------------------------------------------------------------ pure helpers
\* mutant: a parameter that is absent or null reads as false, whatever the
\* default
getBoolNoDefault(param, def) == param = "true"

getBool(param, def) ==
  IF param = "absent" \/ param = "null" THEN def ELSE param = "true"

\* mutant: only the strings are recognised, the option values 1 and 2 are not
getFitModeStrings(raw) ==
  IF raw = "str:width" THEN "width"
  ELSE IF raw = "str:page" THEN "page"
  ELSE "auto"

getFitMode(raw) ==
  IF raw = "num:1" \/ raw = "str:width" THEN "width"
  ELSE IF raw = "num:2" \/ raw = "str:page" THEN "page"
  ELSE "auto"

\* raw || ''
OrEmpty(p) == IF p.isNull THEN <<>> ELSE p.chars

\* mutant: the record id is used as delivered, braces and all
KeepBraces(s) == s

\* s.replace(/[{}]/g, '')
StripBraces(s) == SelectSeq(s, LAMBDA ch : ch \notin {"{", "}"})

\* !table || !col || !recId
LocatorMissing(table, col, recId) == table = <<>> \/ col = <<>> \/ recId = <<>>

\* ------------------------------------------------------------- arithmetic
\* JavaScript numbers as the control uses them: a non-negative fraction n/d
\* in lowest terms, Infinity, or NaN
RECURSIVE GCD(_, _)
GCD(a, b) == IF b = 0 THEN a ELSE GCD(b, a % b)

Fin(n, d) == LET g == GCD(n, d) IN [k |-> "fin", n |-> n \div g, d |-> d \div g]
Inf == [k |-> "inf", n |-> 1, d |-> 0]
NaN == [k |-> "nan", n |-> 0, d |-> 0]

\* a / b for integers a, b >= 0
Div(a, b) == IF b # 0 THEN Fin(a, b) ELSE IF a = 0 THEN NaN ELSE Inf

\* Math.min(x, y)
MathMin(x, y) ==
  IF x.k = "nan" \/ y.k = "nan" THEN NaN
  ELSE IF x.k = "inf" THEN y
  ELSE IF y.k = "inf" THEN x
  ELSE IF x.n * y.d <= y.n * x.d THEN x ELSE y

\* len * x for an integer len >= 0 (page.getViewport({ scale }) scales the
\* page's size)
Times(len, x) ==
  IF x.k = "fin" THEN Fin(len * x.n, x.d)
  ELSE IF x.k = "inf" /\ len # 0 THEN Inf
  ELSE NaN

\* canvas.width = Math.floor(x): a canvas dimension is an unsigned long, and
\* Infinity and NaN convert to 0
FloorDim(x) == IF x.k = "fin" THEN x.n \div x.d ELSE 0

\* Math.round of a fraction (offsetWidth is an integer)
Round(x) == (2 * x.n + x.d) \div (2 * x.d)

\* mutant: 'page' takes the larger of the two ratios
calcScaleMax(parentW, parentH, pageW, pageH, fit) ==
  LET scaleW == Div(parentW, pageW)
      scaleH == Div(parentH, pageH)
  IN  IF fit = "width" THEN scaleW
      ELSE IF fit = "page"
           THEN (IF MathMin(scaleW, scaleH) = scaleW THEN scaleH ELSE scaleW)
      ELSE MathMin(scaleW, scaleH)

calcScale(parentW, parentH, pageW, pageH, fit) ==
  LET scaleW == Div(parentW, pageW)
      scaleH == Div(parentH, pageH)
  IN  IF fit = "width" THEN scaleW
      ELSE IF fit = "page" THEN MathMin(scaleW, scaleH)
      ELSE MathMin(scaleW, scaleH)

\* ------------------------------------------------------------ DOM elements
\* document.createElement('canvas'): 300 x 150, no style size, blank.  id
\* tells canvases apart (the render pass that created it); content is the
\* updateView calls whose buffers were drawn on it since it was last blanked;
\* painters are
\* the render passes whose page.render() is drawing on it
NoCanvas == [id |-> 0, width |-> 0, height |-> 0, styleW |-> NaN, styleH |-> NaN,
             content |-> {}, painters |-> {}]
NewCanvas(id) == [id |-> id, width |-> 300, height |-> 150, styleW |-> NaN, styleH |-> NaN,
                  content |-> {}, painters |-> {}]

NoButtons == [btnPrev |-> FALSE, btnNext |-> FALSE, btnZoomIn |-> FALSE, btnZoomOut |-> FALSE,
              btnDownload |-> FALSE, btnPrint |-> FALSE]
\* makeBtn(label, enabled): the button is enabled unless `disabled` is set
makeBtn(enabled) == enabled

\* the children of the container: a message div, a toolbar, a canvas
MsgEl(text) == [tag |-> "msg", text |-> text, buttons |-> NoButtons, canvas |-> 0]
ToolbarEl(allowDownload, allowPrint) ==
  [tag |-> "toolbar", text |-> "",
   buttons |-> [btnPrev |-> makeBtn(FALSE), btnNext |-> makeBtn(FALSE),
                btnZoomIn |-> makeBtn(TRUE), btnZoomOut |-> makeBtn(TRUE),
                btnDownload |-> makeBtn(allowDownload), btnPrint |-> makeBtn(allowPrint)],
   canvas |-> 0]
CanvasEl(id) == [tag |-> "canvas", text |-> "", buttons |-> NoButtons, canvas |-> id]

\* the two messages; the detail after "Failed to load PDF: " (e.message) is
\* left out
NotConfigured == "PDF not configured (missing table/column/record)."
FailedToLoad == "Failed to load PDF: "

\* mutant: the message is appended to what the container holds
renderMessageAppend(text) == container' = Append(container, MsgEl(text))

\* this.container.innerHTML = `<div ...>${msg}</div>`
renderMessage(text) == container' = <<MsgEl(text)>>

\* the sizing of render() taken on its own: the container's rectangle, the
\* page's size at scale 1 and this.currentFit go in; the scale and the canvas
\* size come out ("none": not computed yet; "returned": calcScale returned)
NoSizing == [parentW |-> 0, parentH |-> 0, pageW |-> 0, pageH |-> 0, fit |-> "auto"]
NotSized == [outcome |-> "none", scale |-> NaN, width |-> 300, height |-> 150]

\* ------------------------------------------------------------------- Init
Constructed ==
  /\ phase = "constructed"
  /\ ctx = NoCtx
  /\ pdfData = None
  /\ currentFit = "auto"
  /\ canvas = NoCanvas
  /\ container = <<>>
  /\ size = [w |-> 300, h |-> 200]
  /\ resizeObserver = 0
  /\ observers = {}
  /\ unhookPrint = 0
  /\ listeners = {}
  /\ calls = <<>>
  /\ passes = <<>>
  /\ fetchCount = 0
  /\ initCalls = 0
  /\ events = 0
  /\ zoomedSince = FALSE
  /\ lastKey = NoKey
  /\ cfgFit = "null"
  /\ objectUrls = {}
  /\ urlsCreated = 0

Init ==
  /\ Constructed
  /\ calcIn = NoSizing
  /\ calcOut = NotSized

\* --------------------------------------------------- print guard, observer
\* mutant: the previous handler is not removed before the new one is added
applyPrintGuardLeak(allowPrint, h) ==
  /\ listeners' = listeners \cup {[id |-> h, allowPrint |-> allowPrint]}
  /\ unhookPrint' = h

\* applyPrintGuard(allowPrint): removes the handler this.unhookPrint refers
\* to, registers a new capturing keydown handler h that closes over
\* allowPrint, and makes this.unhookPrint refer to it
applyPrintGuard(allowPrint, h) ==
  /\ listeners' = {l \in listeners : l.id # unhookPrint}
                    \cup {[id |-> h, allowPrint |-> allowPrint]}
  /\ unhookPrint' = h

\* the keydown handler of applyPrintGuard, for the handler record l and event e
Suppresses(l, e) ==
  /\ ~l.allowPrint
  /\ e.ctrlKey \/ e.metaKey
  /\ e.key \in {"p", "P"}            \* e.key.toLowerCase() === 'p'

\* ---------------------------------------------------------------- render
\* an updateView call: the locator it fetches (id: the record id without
\* braces), where it stands (pc: "fetch" and "render" are its two awaits,
\* "resolved" and "rejected" its promise once settled), what became of its
\* fetch, and whether its catch clause ran
FetchCall(table, recId, col, pageFit) ==
  [table |-> table, id |-> recId, col |-> col, pageFit |-> pageFit, pc |-> "fetch",
   fetch |-> "pending", failed |-> FALSE]
NoFetchCall ==
  [table |-> <<>>, id |-> <<>>, col |-> <<>>, pageFit |-> "null", pc |-> "resolved",
   fetch |-> "none", failed |-> FALSE]

\* a render pass (gen and zoomed are history: the updateView calls made when
\* it started, and whether a zoom was applied since the last of them)
NewPass(data, origin, callNo) ==
  [pc |-> "decode", data |-> data, origin |-> origin, call |-> callNo,
   gen |-> Len(calls), zoomed |-> zoomedSince, cv |-> 0, fit |-> "", scale |-> NaN]

\* a pass whose promise has settled: its locals are gone
Settled(pass, pc) ==
  [pass EXCEPT !.pc = pc, !.data = None, !.zoomed = FALSE, !.cv = 0, !.fit = "",
               !.scale = NaN]

\* render() up to its first await, with this.pdfData = data: returns at once
\* without a payload; otherwise empties the container, appends the toolbar
\* (when visible) and a new canvas, and starts decoding the payload
renderSync(data, origin, callNo) ==
  IF data = None
  THEN UNCHANGED <<container, canvas, passes>>
  ELSE LET allowDownload  == getBool(ctx.allowDownload, FALSE)
           allowPrint     == getBool(ctx.allowPrint, FALSE)
           toolbarVisible == getBool(ctx.toolbarVisible, TRUE)
           id             == Len(passes) + 1
       IN  /\ container' = (IF toolbarVisible THEN <<ToolbarEl(allowDownload, allowPrint)>>
                            ELSE <<>>) \o <<CanvasEl(id)>>
           /\ canvas' = NewCanvas(id)
           /\ passes' = Append(passes, NewPass(data, origin, callNo))

\* mutant: render() is awaited outside the try block, so what it throws
\* rejects the promise of updateView
afterRenderNoCatch(c, threw) ==
  /\ calls' = [calls EXCEPT ![c].pc = IF threw THEN "rejected" ELSE "resolved"]
  /\ UNCHANGED container

\* the rest of updateView once `await this.render()` settles for call c:
\* the pass completed, or it threw and the catch clause shows the message
afterRender(c, threw) ==
  IF ~threw
  THEN /\ calls' = [calls EXCEPT ![c].pc = "resolved"]
       /\ UNCHANGED container
  ELSE /\ renderMessage(FailedToLoad)
       /\ calls' = [calls EXCEPT ![c].pc = "resolved", ![c].failed = TRUE]

\* render pass p settles: an updateView call awaits a pass it started, nobody
\* awaits a pass the resize observer started
settle(p, threw) ==
  IF passes[p].origin = "update"
  THEN afterRender(passes[p].call, threw)
  ELSE UNCHANGED <<container, calls>>

\* ---------------------------------------------------------------- actions
\* one more event is delivered to the control (the bound of the model)
Deliver == events < MaxEvents /\ events' = events + 1

\* init(context, notifyOutputChanged, state, container)
InitCall(c) ==
  /\ phase \in {"constructed", "live"}
  /\ initCalls < MaxInits
  /\ Deliver
  /\ initCalls' = initCalls + 1
  /\ phase' = "live"
  /\ ctx' = c
  /\ IF ResizeObserverInWindow
     THEN /\ resizeObserver' = initCalls + 1
          /\ observers' = observers \cup {initCalls + 1}
     ELSE UNCHANGED <<resizeObserver, observers>>
  /\ applyPrintGuard(getBool(c.allowPrint, FALSE), initCalls + 1)
  /\ UNCHANGED <<pdfData, currentFit, canvas, container, size, calls, passes,
                 fetchCount, zoomedSince, lastKey>>
  /\ UNCHANGED <<cfgFit, urlVars, calcVars>>

\* updateView(context) up to its return or its first await
UpdateView(c) ==
  /\ phase = "live"
  /\ Len(calls) < MaxUpdates
  /\ Deliver
  /\ ctx' = c
  /\ currentFit' = getFitMode(c.pageFit)
  /\ zoomedSince' = FALSE
  /\ cfgFit' = c.pageFit
  /\ LET table == OrEmpty(c.tableLogicalName)
         recId == StripBraces(OrEmpty(c.recordId))
         col   == OrEmpty(c.fileColumnName)
     IN  IF LocatorMissing(table, col, recId)
         THEN /\ renderMessage(NotConfigured)
              /\ calls' = Append(calls, NoFetchCall)
              /\ UNCHANGED fetchCount
         ELSE /\ fetchCount' = fetchCount + 1
              /\ calls' = Append(calls, FetchCall(table, recId, col, c.pageFit))
              /\ UNCHANGED container
  /\ UNCHANGED <<phase, pdfData, canvas, size, resizeObserver, observers,
                 unhookPrint, listeners, passes, initCalls, lastKey>>
  /\ UNCHANGED <<urlVars, calcVars>>

\* the fetch of call c succeeds: fetchPdfBuffer returns the buffer, updateView
\* stores it and runs render() up to its first await
FetchOk(c) ==
  /\ c \in DOMAIN calls
  /\ calls[c].pc = "fetch"
  /\ LET buf == [call |-> c, id |-> calls[c].id]
     IN  /\ pdfData' = buf
         /\ renderSync(buf, "update", c)
  /\ calls' = [calls EXCEPT ![c].pc = "render", ![c].fetch = "ok"]
  /\ UNCHANGED <<phase, ctx, currentFit, size, resizeObserver, observers,
                 unhookPrint, listeners, fetchCount, initCalls,
                 events, zoomedSince, lastKey>>
  /\ UNCHANGED <<cfgFit, urlVars, calcVars>>

\* mutant: a failed fetch is issued again
FetchFailRetry(c, reason) ==
  /\ c \in DOMAIN calls
  /\ calls[c].pc = "fetch"
  /\ fetchCount' = fetchCount + 1
  /\ UNCHANGED <<phase, ctx, pdfData, currentFit, canvas, container, size, resizeObserver,
                 observers, unhookPrint, listeners, calls, passes, initCalls, events,
                 zoomedSince, lastKey>>
  /\ UNCHANGED <<cfgFit, urlVars, calcVars>>

\* the fetch of call c fails (fetch() rejects, or !res.ok throws): the catch
\* clause of updateView shows the message
FetchFail(c, reason) ==
  /\ c \in DOMAIN calls
  /\ calls[c].pc = "fetch"
  /\ reason \in FetchOutcomes \ {"ok"}
  /\ renderMessage(FailedToLoad)
  /\ calls' = [calls EXCEPT ![c].pc = "resolved", ![c].fetch = "failed", ![c].failed = TRUE]
  /\ UNCHANGED <<phase, ctx, pdfData, currentFit, canvas, size, resizeObserver,
                 observers, unhookPrint, listeners, passes, fetchCount, initCalls,
                 events, zoomedSince, lastKey>>
  /\ UNCHANGED <<cfgFit, urlVars, calcVars>>

\* getDocument(...).promise and pdf.getPage(1) resolve for pass p: render()
\* takes this.canvas as it is now, sizes it for the scale of the current fit
\* policy and container rectangle (which blanks it), and starts painting
DecodeOk(p) ==
  /\ p \in DOMAIN passes
  /\ passes[p].pc = "decode"
  /\ ~Corrupt(passes[p].data.id)
  /\ LET page  == PageOf(passes[p].data.id)
         scale == calcScale(size.w, size.h, page.w, page.h, currentFit)
     IN  /\ canvas' = [canvas EXCEPT !.width = FloorDim(Times(page.w, scale)),
                                     !.height = FloorDim(Times(page.h, scale)),
                                     !.content = {},
                                     !.painters = @ \cup {p}]
         /\ passes' = [passes EXCEPT ![p].pc = "paint", ![p].cv = canvas.id,
                                     ![p].fit = currentFit, ![p].scale = scale]
  /\ UNCHANGED <<phase, ctx, pdfData, currentFit, container, size, resizeObserver,
                 observers, unhookPrint, listeners, calls, fetchCount, initCalls,
                 events, zoomedSince, lastKey>>
  /\ UNCHANGED <<cfgFit, urlVars, calcVars>>

\* getDocument(...).promise rejects for pass p: the bytes are not a PDF
DecodeFail(p) ==
  /\ p \in DOMAIN passes
  /\ passes[p].pc = "decode"
  /\ Corrupt(passes[p].data.id)
  /\ passes' = [passes EXCEPT ![p] = Settled(@, "failed")]
  /\ settle(p, TRUE)
  /\ UNCHANGED <<phase, ctx, pdfData, currentFit, canvas, size, resizeObserver,
                 observers, unhookPrint, listeners, fetchCount, initCalls,
                 events, zoomedSince, lastKey>>
  /\ UNCHANGED <<cfgFit, urlVars, calcVars>>

\* page.render(...).promise settles for pass p: the page is drawn on the
\* canvas the pass took (no longer visible when this.canvas is another one by
\* now), or the drawing failed
PaintDone(p, ok) ==
  /\ p \in DOMAIN passes
  /\ passes[p].pc = "paint"
  /\ canvas' = IF canvas.id = passes[p].cv
               THEN [canvas EXCEPT !.painters = @ \ {p},
                                   !.content = IF ok THEN @ \cup {passes[p].data.call} ELSE @]
               ELSE canvas
  /\ passes' = [passes EXCEPT ![p] = Settled(@, IF ok THEN "done" ELSE "failed")]
  /\ settle(p, ~ok)
  /\ UNCHANGED <<phase, ctx, pdfData, currentFit, size, resizeObserver, observers,
                 unhookPrint, listeners, fetchCount, initCalls,
                 events, zoomedSince, lastKey>>
  /\ UNCHANGED <<cfgFit, urlVars, calcVars>>

\* the resize observer's callback, () => this.render(), called when the
\* container's size has changed (the call that follows observe() finds no
\* payload and returns)
Resize(sz) ==
  /\ observers # {}
  /\ sz # size
  /\ Deliver
  /\ size' = sz
  /\ renderSync(pdfData, "resize", 0)
  /\ UNCHANGED <<phase, ctx, pdfData, currentFit, resizeObserver, observers,
                 unhookPrint, listeners, calls, fetchCount, initCalls, zoomedSince, lastKey>>
  /\ UNCHANGED <<cfgFit, urlVars, calcVars>>

\* canvas.offsetWidth / offsetHeight: the laid-out size, an integer; 0 for a
\* canvas that is not in the document
Attached == \E i \in DOMAIN container : container[i].tag = "canvas" /\ container[i].canvas = canvas.id
offset(style, attr) ==
  IF ~Attached THEN 0 ELSE IF style.k = "fin" THEN Round(style) ELSE attr

\* mutant: zoom rescales the canvas and leaves the fit policy alone
zoomKeepFit(factor) ==
  /\ canvas' = [canvas EXCEPT !.styleW = Times(canvas.width, factor),
                              !.styleH = Times(canvas.height, factor)]
  /\ UNCHANGED currentFit

\* mutant: zoom resizes the bitmap (which blanks it) instead of the style
zoomResample(factor) ==
  IF canvas = NoCanvas
  THEN UNCHANGED <<currentFit, canvas>>
  ELSE /\ currentFit' = "width"
       /\ canvas' = [canvas EXCEPT !.width = FloorDim(Times(canvas.width, factor)),
                                   !.height = FloorDim(Times(canvas.height, factor)),
                                   !.content = {}]

\* zoom(factor), with factor a fraction
zoom(factor) ==
  IF canvas = NoCanvas
  THEN UNCHANGED <<currentFit, canvas>>
  ELSE LET ow == offset(canvas.styleW, canvas.width)
           oh == offset(canvas.styleH, canvas.height)
           w  == Times(IF ow # 0 THEN ow ELSE canvas.width, factor)
           h  == Times(IF oh # 0 THEN oh ELSE canvas.height, factor)
       IN  /\ currentFit' = "width"
           /\ canvas' = [canvas EXCEPT !.styleW = w, !.styleH = h]

\* the factors of the '+' and the '-' button: 1.1 and 1/1.1
ZoomFactors == {Fin(11, 10), Fin(10, 11)}

\* a click on a zoom button of the displayed toolbar
Zoom(factor) ==
  /\ phase = "live"
  /\ Deliver
  /\ \E i \in DOMAIN container :
        container[i].tag = "toolbar" /\ container[i].buttons.btnZoomIn /\ container[i].buttons.btnZoomOut
  /\ zoom(factor)
  /\ zoomedSince' = (zoomedSince \/ canvas # NoCanvas)
  /\ UNCHANGED <<phase, ctx, pdfData, container, size, resizeObserver, observers,
                 unhookPrint, listeners, calls, passes, fetchCount, initCalls, lastKey>>
  /\ UNCHANGED <<cfgFit, urlVars, calcVars>>

\* a keydown event reaches the window's capturing listeners
KeyDown(e) ==
  /\ Deliver
  /\ lastKey' = [ctrlKey |-> e.ctrlKey, metaKey |-> e.metaKey, key |-> e.key,
                 prevented |-> \E l \in listeners : Suppresses(l, e)]
  /\ UNCHANGED <<phase, ctx, pdfData, currentFit, canvas, container, size,
                 resizeObserver, observers, unhookPrint, listeners, calls, passes,
                 fetchCount, zoomedSince, initCalls>>
  /\ UNCHANGED <<cfgFit, urlVars, calcVars>>

\* destroy()
Destroy ==
  /\ phase \in {"live", "destroyed"}
  /\ Deliver
  /\ phase' = "destroyed"
  /\ observers' = observers \ {resizeObserver}
  /\ listeners' = {l \in listeners : l.id # unhookPrint}
  /\ UNCHANGED <<ctx, pdfData, currentFit, canvas, container, size, resizeObserver,
                 unhookPrint, calls, passes, fetchCount, initCalls, zoomedSince, lastKey>>
  /\ UNCHANGED <<cfgFit, urlVars, calcVars>>

\* mutant: the object URL is not revoked
downloadNoRevoke(url) ==
  IF pdfData = None
  THEN UNCHANGED urlVars
  ELSE /\ urlsCreated' = urlsCreated + 1
       /\ objectUrls' = objectUrls \cup {url}

\* download(), with url the object URL that URL.createObjectURL returns: the
\* URL is created, the link is clicked, the URL is revoked
download(url) ==
  IF pdfData = None
  THEN UNCHANGED urlVars
  ELSE /\ urlsCreated' = urlsCreated + 1
       /\ objectUrls' = (objectUrls \cup {url}) \ {url}

\* a click on the Download button of the displayed toolbar (a disabled button
\* delivers no click)
Download ==
  /\ phase = "live"
  /\ Deliver
  /\ \E i \in DOMAIN container :
        container[i].tag = "toolbar" /\ container[i].buttons.btnDownload
  /\ download(urlsCreated + 1)
  /\ UNCHANGED <<phase, ctx, pdfData, currentFit, canvas, container, size,
                 resizeObserver, observers, unhookPrint, listeners, calls, passes,
                 fetchCount, initCalls, zoomedSince, lastKey, cfgFit, calcVars>>

Next ==
  \/ \E c \in InitConfigs : InitCall(c)
  \/ \E c \in Configs : UpdateView(c)
  \/ \E c \in DOMAIN calls : FetchOk(c)
  \/ \E c \in DOMAIN calls, r \in FetchOutcomes \ {"ok"} : FetchFail(c, r)
  \/ \E p \in DOMAIN passes : DecodeOk(p)
  \/ \E p \in DOMAIN passes : DecodeFail(p)
  \/ \E p \in DOMAIN passes, ok \in BOOLEAN : PaintDone(p, ok)
  \/ \E sz \in Sizes : Resize(sz)
  \/ \E f \in ZoomFactors : Zoom(f)
  \/ \E e \in Keys : KeyDown(e)
  \/ Download
  \/ Destroy

Spec == Init /\ [][Next]_vars

\* ------------------------------------------------- the sizing on its own
\* the values of type FitMode
FitModes == {"auto", "width", "page"}

\* rectangles of the container and sizes of a page at scale 1, zero included
\* (a container that is not laid out, a page without extent)
Sizings ==
  [parentW : 0..MaxDim, parentH : 0..MaxDim, pageW : 0..MaxDim, pageH : 0..MaxDim,
   fit : FitModes]

InitCalc ==
  /\ Constructed
  /\ calcIn \in Sizings
  /\ calcOut = NotSized

\* render() from calcScale to the sizing of a new canvas, for calcIn
Sizing ==
  /\ calcOut.outcome = "none"
  /\ LET scale == calcScale(calcIn.parentW, calcIn.parentH, calcIn.pageW, calcIn.pageH,
                            calcIn.fit)
     IN  calcOut' = [outcome |-> "returned", scale |-> scale,
                     width |-> FloorDim(Times(calcIn.pageW, scale)),
                     height |-> FloorDim(Times(calcIn.pageH, scale))]
  /\ UNCHANGED <<phase, ctx, pdfData, currentFit, canvas, container, size,
                 resizeObserver, observers, unhookPrint, listeners, calls, passes,
                 fetchCount, initCalls, events, zoomedSince, lastKey, cfgFit,
                 urlVars, calcIn>>

NextCalc == Sizing

SpecCalc == InitCalc /\ [][NextCalc]_vars

\* ================================================================ claims
\* the displayed surface: the canvas this.canvas refers to, when it is a
\* child of the container
Displayed == \E i \in DOMAIN container : container[i].tag = "canvas"
ShowsMessage(text) == container = <<MsgEl(text)>>

\* a step that delivers no event is the completion of a fetch, a decode or a
\* paint
CompletionStep == events' = events
UpdateViewStep == Len(calls') = Len(calls) + 1

\* C1 (as claimed): with B the latest updateView call whose fetch has
\* succeeded, the payload held is the document of B's locator, and so is
\* everything drawn on the displayed surface: no completion of an earlier
\* call A replaces them.
C1_LatestConfigurationWins ==
  \A b \in DOMAIN calls :
    (calls[b].fetch = "ok" /\ \A c \in DOMAIN calls : c > b => calls[c].fetch # "ok")
      => /\ pdfData.id = calls[b].id
         /\ Displayed => \A a \in canvas.content : calls[a].id = calls[b].id

\* C2 (as claimed): after destroy(), the completion of a fetch, decode or
\* paint changes neither the payload nor the container nor any surface.
C2_CompletionAfterDestroyIsNoOp ==
  [][(phase = "destroyed" /\ CompletionStep)
       => (pdfData' = pdfData /\ container' = container /\ canvas' = canvas)]_vars

\* the locator of configuration c is incomplete: the table name or the column
\* name has no character, or the record id has none besides curly braces
HasText(param, ignored) ==
  /\ ~param.isNull
  /\ \E i \in DOMAIN param.chars : param.chars[i] \notin ignored
IncompleteLocator(c) ==
  \/ ~HasText(c.tableLogicalName, {})
  \/ ~HasText(c.fileColumnName, {})
  \/ ~HasText(c.recordId, {"{", "}"})

\* C3: an updateView call whose table name, column name or record id (braces
\* stripped) is empty issues no fetch and leaves the container showing the
\* 'not configured' message.
C3_IncompleteLocatorNeverFetches ==
  [][(UpdateViewStep /\ IncompleteLocator(ctx'))
       => (fetchCount' = fetchCount /\ ShowsMessage(NotConfigured)')]_vars

\* C3 witness: collection and field given, recordId '' : the message is shown
\* and no fetch was issued.
C3_Witness ==
  /\ Len(calls) = 1
  /\ ctx.recordId = S(<<>>) /\ HasText(ctx.tableLogicalName, {}) /\ HasText(ctx.fileColumnName, {})
  /\ fetchCount = 0
  /\ ShowsMessage(NotConfigured)

\* C4: every step issues exactly one fetch when it is an updateView call with
\* a complete locator, and none otherwise (resize, zoom, a failed fetch's
\* completion, ...), so the fetches issued count those calls.
C4_OneFetchPerCompleteUpdate ==
  [][fetchCount' = fetchCount + (IF UpdateViewStep /\ ~IncompleteLocator(ctx') THEN 1 ELSE 0)]_vars

\* C4 witness: two calls with the same locator issued two fetches, the first
\* of which failed, and a resize started a render pass.
C4_Witness ==
  /\ Len(calls) = 2
  /\ calls[1].id = calls[2].id /\ calls[1].table = calls[2].table /\ calls[1].col = calls[2].col
  /\ calls[1].fetch = "failed"
  /\ fetchCount = 2
  /\ \E p \in DOMAIN passes : passes[p].origin = "resize"

\* C5: at most one keydown interceptor of the control is registered on the
\* window, and none once the control is destroyed.
C5_AtMostOnePrintGuard ==
  /\ Cardinality(listeners) <= 1
  /\ phase = "destroyed" => listeners = {}

\* C5 witness: init ran twice, and only the second guard is registered.
C5_Witness ==
  /\ initCalls = 2
  /\ listeners # {}
  /\ \A l \in listeners : l.id = 2

\* the default action of a Ctrl+P keydown is prevented by a registered guard
CtrlP == [ctrlKey |-> TRUE, metaKey |-> FALSE, key |-> "p"]
CtrlPSuppressed == \E l \in listeners : Suppresses(l, CtrlP)

\* C6 (as claimed): while the control is live, Ctrl+P is suppressed exactly
\* when allowPrint of the most recently delivered configuration is not true.
C6_GuardFollowsConfiguration ==
  phase = "live" => (CtrlPSuppressed <=> ctx.allowPrint # "true")

\* the scale of 'width' semantics: containerWidth / pageWidth
IsWidthScale(scale, id) ==
  scale.k = "fin" /\ scale.n * PageOf(id).w = scale.d * size.w
\* the policy a configuration names
PolicyOf(c) ==
  CASE c.pageFit \in {"num:1", "str:width"} -> "width"
    [] c.pageFit \in {"num:2", "str:page"} -> "page"
    [] OTHER -> "auto"

\* C7: once a zoom was applied, every render pass a resize started computes
\* the 'width' scale, until the next updateView call, which sets the fit
\* policy to the one its configuration names.
C7_ZoomForcesWidthUntilUpdate ==
  [][/\ \A p \in DOMAIN passes :
          (zoomedSince /\ passes[p].origin = "resize"
             /\ passes[p].pc = "decode" /\ passes'[p].pc = "paint")
            => IsWidthScale(passes'[p].scale, passes[p].data.id)
     /\ UpdateViewStep => currentFit' = PolicyOf(ctx')]_vars

\* C7 witness: configured policy auto, a zoom, then a resize pass that has
\* computed a scale which is not the one auto gives.
C7_Witness ==
  \E p \in DOMAIN passes :
    /\ zoomedSince /\ PolicyOf(ctx) = "auto"
    /\ passes[p].origin = "resize" /\ passes[p].pc = "paint"
    /\ IsWidthScale(passes[p].scale, passes[p].data.id)
    /\ size.h * passes[p].scale.d < PageOf(passes[p].data.id).h * passes[p].scale.n

\* the fetch, the decode or the paint that updateView call c awaits fails in
\* this step
FailureStep(c) ==
  \/ calls[c].fetch = "pending" /\ calls'[c].fetch = "failed"
  \/ \E p \in DOMAIN passes :
        /\ passes[p].origin = "update" /\ passes[p].call = c
        /\ passes[p].pc \in {"decode", "paint"} /\ passes'[p].pc = "failed"

\* C8: the promise of an updateView call never rejects; a fetch, decode or
\* paint failure resolves it with the 'Failed to load PDF' message shown; and
\* it is pending only while the fetch or the render pass it awaits is.
C8_UpdateViewNeverRejects ==
  [][\A c \in DOMAIN calls :
       /\ calls'[c].pc # "rejected"
       /\ FailureStep(c) => (calls'[c].pc = "resolved" /\ ShowsMessage(FailedToLoad)')
       /\ calls'[c].pc = "render"
            => \E p \in DOMAIN passes' :
                 passes'[p].call = c /\ passes'[p].pc \in {"decode", "paint"}]_vars

\* C8 witness: a call whose fetch succeeded and whose render pass failed is
\* resolved, with the message shown.
C8_Witness ==
  \E c \in DOMAIN calls :
    /\ calls[c].fetch = "ok" /\ calls[c].pc = "resolved"
    /\ \E p \in DOMAIN passes : passes[p].call = c /\ passes[p].pc = "failed"
    /\ ShowsMessage(FailedToLoad)

\* a fetch, decode or paint failure has occurred since the latest
\* configuration was delivered
FailedSinceConfiguration ==
  \/ calls # <<>> /\ calls[Len(calls)].fetch = "failed"
  \/ \E p \in DOMAIN passes : passes[p].gen = Len(calls) /\ passes[p].pc = "failed"

\* C9 (as claimed): a render pass that a resize started and that fails shows
\* the failure message; and once a failure has occurred and the message is
\* shown, it stays shown (no surface replaces it) under every event that is
\* not a new updateView call.
C9_FailureMessageStays ==
  [][/\ (\E p \in DOMAIN passes :
           /\ passes[p].origin = "resize"
           /\ passes[p].pc \in {"decode", "paint"} /\ passes'[p].pc = "failed")
        => ShowsMessage(FailedToLoad)'
     /\ (FailedSinceConfiguration /\ ShowsMessage(FailedToLoad)
           /\ ~CompletionStep /\ ~UpdateViewStep)
        => ShowsMessage(FailedToLoad)']_vars

\* C10 (as claimed): a failed fetch and destroy() leave no payload held.
C10_PayloadDiscarded ==
  [][((\E c \in DOMAIN calls : calls[c].fetch = "pending" /\ calls'[c].fetch = "failed")
        \/ phase' = "destroyed")
       => pdfData' = None]_vars

\* the most recently delivered configuration had an incomplete locator
LatestIsNotConfigured == calls # <<>> /\ calls[Len(calls)].fetch = "none"

\* C11 (as claimed): once a configuration with an incomplete locator is
\* delivered and the 'not configured' message is shown, the message stays
\* shown (no surface replaces it) under every resize and every completion of
\* an earlier fetch, until the next configuration is delivered.
C11_NotConfiguredIsTerminal ==
  [][(LatestIsNotConfigured /\ ShowsMessage(NotConfigured) /\ ~UpdateViewStep)
       => ShowsMessage(NotConfigured)']_vars

\* the render passes suspended in decode or paint
InFlight == {p \in DOMAIN passes : passes[p].pc \in {"decode", "paint"}}

\* C12 (as claimed): at most one render pass is suspended in decode or paint
\* at any time, and at most one pass is painting into the surface.
C12_OnePassInFlight ==
  /\ Cardinality(InFlight) <= 1
  /\ Cardinality(canvas.painters) <= 1

\* the toolbars the container shows
Toolbars == {i \in DOMAIN container : container[i].tag = "toolbar"}
\* a TwoOptions parameter read with default false / with default true
FlagOn(param) == param = "true"
FlagNotOff(param) == param # "false"
\* Prev and Next disabled, zoom-in and zoom-out enabled
FixedButtons(b) == ~b.btnPrev /\ ~b.btnNext /\ b.btnZoomIn /\ b.btnZoomOut
\* Download and Print as configuration c says
FlagButtons(b, c) ==
  /\ b.btnDownload <=> FlagOn(c.allowDownload)
  /\ b.btnPrint <=> FlagOn(c.allowPrint)

\* C13 (as claimed): whenever a toolbar is displayed, Prev and Next are
\* disabled, the zoom buttons enabled, Download and Print enabled iff
\* allowDownload and allowPrint are true in the current configuration; and
\* no toolbar is displayed when toolbarVisible is false in it.
C13_ToolbarFollowsCurrentConfiguration ==
  phase = "live" =>
    /\ \A i \in Toolbars :
         FixedButtons(container[i].buttons) /\ FlagButtons(container[i].buttons, ctx)
    /\ ~FlagNotOff(ctx.toolbarVisible) => Toolbars = {}

\* C13 (amended): every displayed toolbar has Prev and Next disabled and the
\* zoom buttons enabled; a render pass that starts builds a toolbar iff
\* toolbarVisible is not false (absent: true), with Download and Print enabled
\* iff allowDownload and allowPrint are true (absent: false), in the
\* configuration current when the pass starts.
C13_ToolbarAsBuilt ==
  [][/\ \A i \in Toolbars' : FixedButtons(container'[i].buttons)
     /\ Len(passes') > Len(passes)
          => /\ (Toolbars' # {}) <=> FlagNotOff(ctx.toolbarVisible)
             /\ \A i \in Toolbars' : FlagButtons(container'[i].buttons, ctx)]_vars

\* C13 witness: a toolbar is displayed whose Download button is enabled and
\* whose Print button is disabled, for a configuration that leaves
\* toolbarVisible at its default.
C13_Witness ==
  \E i \in Toolbars :
    /\ container[i].buttons.btnDownload /\ ~container[i].buttons.btnPrint
    /\ FlagOn(ctx.allowDownload) /\ ~FlagOn(ctx.allowPrint)

\* the number x is the ratio a / b, is at most the ratio a / b (a, b > 0)
IsRatio(x, a, b) == x.k = "fin" /\ x.n * b = a * x.d
AtMostRatio(x, a, b) == x.k = "fin" /\ x.n * b <= a * x.d
PositiveSizing ==
  calcIn.parentW > 0 /\ calcIn.parentH > 0 /\ calcIn.pageW > 0 /\ calcIn.pageH > 0

\* C14: for positive container and page dimensions calcScale returns
\* containerWidth / pageWidth under 'width' and the smaller of
\* containerWidth / pageWidth and containerHeight / pageHeight under 'page';
\* under 'auto' it returns what 'page' returns, for every input.
C14_ScaleCorrectness ==
  calcOut.outcome = "returned" =>
    /\ (PositiveSizing /\ calcIn.fit = "width")
         => IsRatio(calcOut.scale, calcIn.parentW, calcIn.pageW)
    /\ (PositiveSizing /\ calcIn.fit = "page")
         => /\ AtMostRatio(calcOut.scale, calcIn.parentW, calcIn.pageW)
            /\ AtMostRatio(calcOut.scale, calcIn.parentH, calcIn.pageH)
            /\ \/ IsRatio(calcOut.scale, calcIn.parentW, calcIn.pageW)
               \/ IsRatio(calcOut.scale, calcIn.parentH, calcIn.pageH)
    /\ calcIn.fit = "auto"
         => calcOut.scale = calcScale(calcIn.parentW, calcIn.parentH, calcIn.pageW,
                                      calcIn.pageH, "page")

\* C14 witness: under 'page', with the height ratio the smaller one, the
\* height ratio was returned.
C14_Witness ==
  /\ calcOut.outcome = "returned" /\ PositiveSizing /\ calcIn.fit = "page"
  /\ calcIn.parentH * calcIn.pageW < calcIn.parentW * calcIn.pageH
  /\ IsRatio(calcOut.scale, calcIn.parentH, calcIn.pageH)

\* C15 (as claimed): for a page width or height of zero the scale computation
\* fails with InvalidGeometry, returns no value (no Infinity, no NaN), and the
\* dimensions of the surface are not set.
C15_InvalidGeometryFails ==
  (calcIn.pageW = 0 \/ calcIn.pageH = 0)
    => /\ calcOut.outcome \in {"none", "InvalidGeometry"}
       /\ calcOut.width = NotSized.width /\ calcOut.height = NotSized.height

\* C16: no object URL that the download action created is outstanding once the
\* action has returned (every step leaves none), and a URL is created only
\* while a payload is held.
C16_ObjectUrlsRevoked ==
  [][/\ objectUrls' = {}
     /\ urlsCreated' # urlsCreated => (pdfData # None /\ urlsCreated' = urlsCreated + 1)]_vars

\* C16 witness: a click on the Download button created an object URL, and
\* none is outstanding.
C16_Witness ==
  /\ urlsCreated = 1
  /\ objectUrls = {}
  /\ pdfData # None

\* the scale of 'page' and of 'auto' semantics: the smaller of
\* containerWidth / pageWidth and containerHeight / pageHeight
IsPageScale(scale, id) ==
  /\ AtMostRatio(scale, size.w, PageOf(id).w)
  /\ AtMostRatio(scale, size.h, PageOf(id).h)
  /\ IsRatio(scale, size.w, PageOf(id).w) \/ IsRatio(scale, size.h, PageOf(id).h)
IsScaleOf(policy, scale, id) ==
  IF policy = "width" THEN IsWidthScale(scale, id) ELSE IsPageScale(scale, id)

\* render pass p, which updateView started after its fetch, computes its scale
\* in this step
ComputesScale(p) ==
  passes[p].origin = "update" /\ passes[p].pc = "decode" /\ passes'[p].pc = "paint"

\* C17 (as claimed): the render pass that follows the successful fetch of a
\* configuration computes its scale with the fit policy that configuration
\* names, also when a zoom gesture occurred between that updateView call and
\* the completion of its fetch (stated for the most recently delivered
\* configuration and for zoom gestures that preceded the start of the pass).
C17_FirstRenderUsesConfiguredFit ==
  [][\A p \in DOMAIN passes :
       (ComputesScale(p) /\ passes[p].call = Len(calls)
          /\ (zoomedSince => passes[p].zoomed))
         => IsScaleOf(PolicyOf([pageFit |-> calls[passes[p].call].pageFit]),
                      passes'[p].scale, passes[p].data.id)]_vars

\* C17 (amended): the render pass that follows a configuration's successful
\* fetch computes its scale with the fit policy named in the most recently
\* delivered configuration, unless a zoom gesture was applied since that
\* configuration was delivered: then it computes the 'width' scale.
C17_FirstRenderUsesFitInForce ==
  [][\A p \in DOMAIN passes :
       ComputesScale(p)
         => IsScaleOf(IF zoomedSince THEN "width" ELSE PolicyOf([pageFit |-> cfgFit]),
                      passes'[p].scale, passes[p].data.id)]_vars

\* C17 witness: the configuration names no policy (auto), a zoom on the
\* previous surface came between the updateView call and the completion of
\* its fetch, and the pass after the fetch has computed the 'width' scale,
\* which is not the scale of auto.
C17_Witness ==
  \E p \in DOMAIN passes :
    /\ passes[p].origin = "update" /\ passes[p].call = Len(calls) /\ passes[p].pc = "paint"
    /\ passes[p].zoomed /\ PolicyOf([pageFit |-> cfgFit]) = "auto"
    /\ IsWidthScale(passes[p].scale, passes[p].data.id)
    /\ ~IsPageScale(passes[p].scale, passes[p].data.id)

\* the integer dim is floor(len * x), for a fraction x
IsFloorOf(dim, len, x) ==
  x.k = "fin" /\ dim * x.d <= len * x.n /\ len * x.n < (dim + 1) * x.d

\* C18 (as claimed): when a render pass completes, the surface it painted has
\* pixel width floor(pageWidth * scale) and pixel height
\* floor(pageHeight * scale), for the scale the pass computed with calcScale.
C18_SurfaceSizeIsFloor ==
  [][\A p \in DOMAIN passes :
       (passes[p].pc = "paint" /\ passes'[p].pc = "done" /\ canvas.id = passes[p].cv)
         => /\ IsFloorOf(canvas'.width, PageOf(passes[p].data.id).w, passes[p].scale)
            /\ IsFloorOf(canvas'.height, PageOf(passes[p].data.id).h, passes[p].scale)]_vars

\* the width and height the surface is displayed at, as the document reports
\* them (whole pixels): those of its style once a zoom has set one, its pixel
\* dimensions before
DisplayedW == IF canvas.styleW.k = "fin" THEN Round(canvas.styleW) ELSE canvas.width
DisplayedH == IF canvas.styleH.k = "fin" THEN Round(canvas.styleH) ELSE canvas.height
\* the number x is len * f
IsMultiple(x, len, f) == x.k = "fin" /\ x.n * f.d = len * f.n * x.d

\* what the claim says of a zoom gesture with factor f
ZoomEffect(f) ==
  /\ canvas # NoCanvas
       => /\ IsMultiple(canvas'.styleW, DisplayedW, f)
          /\ IsMultiple(canvas'.styleH, DisplayedH, f)
          /\ currentFit' = "width"
  /\ canvas = NoCanvas => (canvas' = canvas /\ currentFit' = currentFit)
  /\ pdfData' = pdfData
  /\ canvas'.id = canvas.id /\ canvas'.width = canvas.width /\ canvas'.height = canvas.height
  /\ canvas'.content = canvas.content
  /\ container' = container
  /\ fetchCount' = fetchCount /\ calls' = calls /\ passes' = passes

\* C19: a zoom gesture sets the displayed width and height of the surface to
\* the factor (11/10 or 10/11) times the width and height it is displayed at
\* and sets the fit policy to 'width'; it leaves the payload, the pixel
\* dimensions and content of the surface and the toolbar as they are and starts
\* no fetch and no render pass; without a surface it changes nothing.
C19_ZoomFrameEffect ==
  [][\A f \in ZoomFactors : Zoom(f) => ZoomEffect(f)]_vars

\* C19 witness: a painted surface of a configuration with policy auto was
\* zoomed in once: it is displayed at 11/10 of its pixel dimensions, which are
\* those of the auto scale, and the policy is 'width'.
C19_Witness ==
  /\ canvas.content # {}
  /\ IsMultiple(canvas.styleW, canvas.width, Fin(11, 10))
  /\ IsMultiple(canvas.styleH, canvas.height, Fin(11, 10))
  /\ currentFit = "width" /\ PolicyOf([pageFit |-> cfgFit]) = "auto"
  /\ pdfData # None /\ Toolbars # {}

\* the container holds one message and nothing else; at most one toolbar
\* followed by one surface and nothing else
MessageOnly == Len(container) = 1 /\ container[1].tag = "msg"
SurfaceOnly ==
  \/ Len(container) = 1 /\ container[1].tag = "canvas"
  \/ Len(container) = 2 /\ container[1].tag = "toolbar" /\ container[2].tag = "canvas"

\* C20 (as claimed): in every state of the initialised control the container
\* holds either exactly one message, or at most one toolbar followed by
\* exactly one surface.
C20_MessageOrSurface ==
  phase # "constructed" => (MessageOnly \/ SurfaceOnly)

\* C20 (amended): the container is empty until the first message or render
\* pass, and from then on holds either exactly one message, or at most one
\* toolbar followed by exactly one surface; never a message together with a
\* surface, never two surfaces or two toolbars.
C20_EmptyMessageOrSurface ==
  /\ container = <<>> \/ MessageOnly \/ SurfaceOnly
  /\ container = <<>>
       => (passes = <<>> /\ \A c \in DOMAIN calls : calls[c].fetch = "pending")

\* C20 witness: a toolbar followed by one surface, while a render pass that
\* updateView started and one that a resize started are both in flight and a
\* message was shown and replaced before.
C20_Witness ==
  /\ Len(container) = 2 /\ SurfaceOnly
  /\ \E p, q \in InFlight : passes[p].origin = "update" /\ passes[q].origin = "resize"
  /\ \E c \in DOMAIN calls : calls[c].fetch = "none"

====
